---- MODULE Spec2Model ----
(***************************************************************************)
(* check-page-speed: the fetch orchestrator of main() (a pool of worker    *)
(* goroutines fed by the jobs channel, a coordinator loop draining the     *)
(* results channel, retries, the done map and the ordered reports slice),  *)
(* together with getReport / readReport, which decide whether an attempt   *)
(* fails; and the functions the text report is made with, each exercised   *)
(* by calls of its own: elide, formatTable and the detail lines that       *)
(* writeReport prints.                                                     *)
(***************************************************************************)
EXTENDS Integers, Sequences, FiniteSets, TLC

\* ---------------------------------------------------------------- bounds
MaxUrls == 2        \* longest command line (number of URL arguments)
MaxWorkers == 2     \* largest -workers value
MaxRetries == 1     \* largest -retries value
MaxFail == 2        \* largest number of leading failed calls of a URL

UrlNames == <<"u1", "u2", "u3", "u4">>
URLS == {UrlNames[n] : n \in 1..MaxUrls}
UrlLists == UNION {[1..n -> URLS] : n \in 0..MaxUrls}

VARIABLES
    urls,        \* flag.Args()
    workers,     \* *workers
    retries,     \* *retries
    failK,       \* per URL: the API/readReport fails on the first failK[u] calls
    pc,          \* position of the main goroutine
    seedIdx,     \* index of the range loop that seeds the jobs channel
    jobs,        \* buffered channel jobs (FIFO contents)
    jobsClosed,  \* close(jobs) has run
    results,     \* buffered channel results (FIFO contents)
    done,        \* map[string]job
    doneOrder,   \* the keys of the executions of done[job.url] = job, in order
    held,        \* the job the coordinator took from results and will re-send
    wpc,         \* position of each worker goroutine
    wjob,        \* the loop variable job of each worker goroutine
    fetchCalls,  \* per URL: number of getReport calls that have returned
    reports,     \* the reports slice
    call,        \* a call of a function outside main: its name and arguments
    ret          \* what that call returned

vars == <<urls, workers, retries, failK, pc, seedIdx, jobs, jobsClosed,
          results, done, doneOrder, held, wpc, wjob, fetchCalls, reports,
          call, ret>>

\* ------------------------------------------------------------------ strings
\* A Go string is modelled as the sequence of its runes; a rune is a one-token
\* string, the two non-ASCII runes having names.
EAcute == "U+00E9"          \* a rune of two bytes in UTF-8
Ellipsis == "U+2026"        \* the rune of three bytes that elide inserts
Slash == "/"
Colon == ":"
Newline == "\n"

Utf8Len(r) == IF r = Ellipsis THEN 3 ELSE IF r = EAcute THEN 2 ELSE 1

\* len(val): the number of bytes of a string
RECURSIVE ByteCount(_)
ByteCount(str) == IF str = <<>> THEN 0 ELSE Utf8Len(Head(str)) + ByteCount(Tail(str))

\* utf8.RuneCountInString(val), len([]rune(s))
RuneCountInString(str) == Len(str)

\* strings.Repeat(" ", n) for n >= 0
Spaces(n) == [k \in 1..n |-> " "]

\* r[:n] and r[len(r)-n:] on rune slices, 0 <= n <= len(r)
FirstRunes(r, n) == SubSeq(r, 1, n)
LastRunes(r, n) == SubSeq(r, Len(r) - n + 1, Len(r))

\* strconv / %d for n >= 0
Digits == <<"0", "1", "2", "3", "4", "5", "6", "7", "8", "9">>
RECURSIVE Itoa(_)
Itoa(n) == IF n < 10 THEN <<Digits[n + 1]>>
           ELSE Itoa(n \div 10) \o <<Digits[(n % 10) + 1]>>

\* ------------------------------------------------------ getDetails (report)
IsSpace(c) == c = " " \/ c = Newline

\* strings.TrimSpace
TrimSpace(str) ==
    IF \A k \in 1..Len(str) : IsSpace(str[k]) THEN <<>>
    ELSE SubSeq(str,
                CHOOSE k \in 1..Len(str) :
                    ~IsSpace(str[k]) /\ \A i \in 1..(k - 1) : IsSpace(str[i]),
                CHOOSE k \in 1..Len(str) :
                    ~IsSpace(str[k]) /\ \A i \in (k + 1)..Len(str) : IsSpace(str[i]))

\* strings.TrimSuffix(fmt.Sprintf("%.1f", vt), ".0") for vt = tenths/10
FormatFloat(tenths) ==
    IF tenths < 0
    THEN <<"-">> \o Itoa((0 - tenths) \div 10)
         \o (IF (0 - tenths) % 10 = 0 THEN <<>> ELSE <<".", Digits[((0 - tenths) % 10) + 1]>>)
    ELSE Itoa(tenths \div 10)
         \o (IF tenths % 10 = 0 THEN <<>> ELSE <<".", Digits[(tenths % 10) + 1]>>)

\* the values of an item: string, float64, map[string]interface{}, bool
StrVal(str) == [t |-> "string", s |-> str]
NumVal(tenths) == [t |-> "float64", tenths |-> tenths]
NoStr == [ok |-> FALSE, s |-> <<>>]
SomeStr(str) == [ok |-> TRUE, s |-> str]
MapVal(snippet, url) == [t |-> "map", snippet |-> snippet, url |-> url]
BoolVal == [t |-> "bool"]

\* fmt.Sprint of a value that is neither string nor number
Sprint(v) == IF v.t = "map" THEN <<"m", "a", "p", "[", "]">> ELSE <<"t", "r", "u", "e">>

UnitAny(itemType) == itemType

\* the unit of a column: only "ms" and "bytes" count
Unit(itemType) == IF itemType \in {"ms", "bytes"} THEN itemType ELSE ""

UnitRunes(un) ==
    IF un = "ms" THEN <<"m", "s">>
    ELSE IF un = "bytes" THEN <<"b", "y", "t", "e", "s">>
    ELSE [k \in 1..1 |-> un]

\* the type switch on item[key]
ValText(v, un) ==
    IF v.t = "string" THEN TrimSpace(v.s)
    ELSE IF v.t = "float64"
    THEN FormatFloat(v.tenths) \o (IF un # "" THEN <<" ">> \o UnitRunes(un) ELSE <<>>)
    ELSE IF v.t = "map"
    THEN IF v.snippet.ok THEN v.snippet.s
         ELSE IF v.url.ok THEN v.url.s
         ELSE Sprint(v)
    ELSE Sprint(v)

HeadingName(h) == TrimSpace(IF h.Text # <<>> THEN h.Text ELSE h.Label)

DetailCell(item, h) ==
    IF h.Key \in DOMAIN item THEN ValText(item[h.Key], Unit(h.ItemType)) ELSE <<>>

EmptyRaw == [kind |-> "empty"]
TextRaw(text) == [kind |-> "text", text |-> text]
JsonRaw(headings, items) == [kind |-> "json", Headings |-> headings, Items |-> items]

\* raw is empty, or text that json.Unmarshal refuses, or the decoded struct
getDetails(raw) ==
    IF raw.kind = "empty" THEN <<>>
    ELSE IF raw.kind = "text" THEN <<<<raw.text>>>>
    ELSE IF Len(raw.Headings) = 0 \/ Len(raw.Items) = 0 THEN <<>>
    ELSE <<[j \in 1..Len(raw.Headings) |-> HeadingName(raw.Headings[j])]>>
         \o [i \in 1..Len(raw.Items) |->
                [j \in 1..Len(raw.Headings) |->
                    DetailCell(raw.Items[i], raw.Headings[j])]]

\* ------------------------------------------------------------ report model
NilRep == [nil |-> TRUE]                     \* (*report)(nil)

NilScore == [type |-> "nil"]
NumScore(m) == [type |-> "float64", milli |-> m]   \* the float m/1000

\* ---- float64: a positive value is sig * 2^(-scale), sig a sequence of Prec
\* binary digits, the first of them 1.
Prec == 53

RECURSIVE IntBits(_)
IntBits(q) == IF q = 0 THEN <<>> ELSE Append(IntBits(q \div 2), q % 2)

RECURSIVE BitsToNat(_)
BitsToNat(bits) ==
    IF bits = <<>> THEN 0
    ELSE 2 * BitsToNat(SubSeq(bits, 1, Len(bits) - 1)) + bits[Len(bits)]

\* the zero digits after the point before the first 1 of r/den, 0 < r < den
RECURSIVE LeadingZeros(_, _)
LeadingZeros(r, den) == IF 2 * r >= den THEN 0 ELSE 1 + LeadingZeros(2 * r, den)

\* 2^i mod den
RECURSIVE Pow2Mod(_, _)
Pow2Mod(i, den) ==
    IF i = 0 THEN 1 % den
    ELSE IF i % 2 = 0
    THEN LET h == Pow2Mod(i \div 2, den) IN (h * h) % den
    ELSE (2 * Pow2Mod(i - 1, den)) % den

\* what remains of r/den below its first i binary digits after the point
FracRem(r, den, i) == (r * Pow2Mod(i, den)) % den

\* the n binary digits of r/den after its first skip digits, and what remains
FracBits(r, den, skip, n) ==
    [bits |-> [i \in 1..n |->
                  IF 2 * FracRem(r, den, skip + i - 1) >= den THEN 1 ELSE 0],
     rem |-> FracRem(r, den, skip + n)]

\* a + b for digit sequences of one length n; the result has n + 1 digits.
\* The carry into digit k comes from a digit pair 1,1 below it with nothing
\* but pairs of sum 1 in between.
AddBits(a, b) ==
    LET n == Len(a)
        Carry(k) ==
            IF \E j \in (k + 1)..n :
                  /\ a[j] = 1 /\ b[j] = 1
                  /\ \A i \in (k + 1)..(j - 1) : a[i] + b[i] = 1
            THEN 1 ELSE 0
    IN  [p \in 1..(n + 1) |->
            IF p = 1 THEN Carry(0)
            ELSE (a[p - 1] + b[p - 1] + Carry(p - 1)) % 2]

ZeroBits(n) == [k \in 1..n |-> 0]

StripZeros(bits) ==
    IF \E k \in 1..Len(bits) : bits[k] = 1
    THEN SubSeq(bits, CHOOSE k \in 1..Len(bits) :
                          bits[k] = 1 /\ \A i \in 1..(k - 1) : bits[i] = 0,
                Len(bits))
    ELSE <<>>

\* Round to nearest, ties to even: bits (first digit 1, at least Prec of them)
\* stand for bits * 2^(-scale); sticky tells of non-zero digits beyond them.
RoundToPrec(bits, scale, sticky) ==
    LET L == Len(bits)
        kept == SubSeq(bits, 1, Prec)
        roundBit == IF L > Prec THEN bits[Prec + 1] ELSE 0
        below == sticky \/ \E k \in (Prec + 2)..L : bits[k] = 1
        up == roundBit = 1 /\ (below \/ kept[Prec] = 1)
        sum == AddBits(kept, ZeroBits(Prec - 1) \o <<1>>)
    IN  IF ~up THEN [sig |-> kept, scale |-> scale - (L - Prec)]
        ELSE IF sum[1] = 1
        THEN [sig |-> SubSeq(sum, 1, Prec), scale |-> scale - (L - Prec) - 1]
        ELSE [sig |-> SubSeq(sum, 2, Prec + 1), scale |-> scale - (L - Prec)]

\* The float64 nearest to num/den (what parsing the JSON number gives), num > 0
Float64Of(num, den) ==
    LET ib == IntBits(num \div den)
        r == num % den
        z == IF ib = <<>> /\ r > 0 THEN LeadingZeros(r, den) ELSE 0
        fb == FracBits(r, den, z, Prec + 2 - Len(ib))
    IN  RoundToPrec(ib \o fb.bits, z + Len(fb.bits), fb.rem # 0)

\* f * 100 in float64: the exact product 64f + 32f + 4f, rounded
Mul100(f) ==
    LET s6 == f.sig \o ZeroBits(6)
        s5 == <<0>> \o f.sig \o ZeroBits(5)
        s2 == <<0, 0, 0, 0>> \o f.sig \o ZeroBits(2)
        s65 == AddBits(s6, s5)
        sum == AddBits(s65, <<0>> \o s2)
    IN  RoundToPrec(StripZeros(sum), f.scale, FALSE)

\* int(math.Round(x)) for x > 0 below 2^31: halves go away from zero
RoundToInt(x) ==
    LET ints == Prec - x.scale
    IN  IF ints < 0 THEN 0
        ELSE IF ints >= Prec THEN BitsToNat(x.sig \o ZeroBits(ints - Prec))
        ELSE BitsToNat(SubSeq(x.sig, 1, ints)) + x.sig[ints + 1]


MaxMilli == 1000     \* scores are given in thousandths, 0 to MaxMilli of them

\* int(math.Round(f * 100)) for the float64 f nearest to num/1000, num > 0
Round100(num) == RoundToInt(Mul100(Float64Of(num, 1000)))

\* Round100 for 1..MaxMilli, worked out once
Round100Table == <<>> \o [m \in 1..MaxMilli |-> Round100(m)]

\* int(math.Round(f * 100)) for the float64 f nearest to milli/1000
score100(score) ==
    IF score.type # "float64" THEN -1
    ELSE IF score.milli = 0 THEN 0
    ELSE IF score.milli \in 1..MaxMilli THEN Round100Table[score.milli]
    ELSE IF score.milli > 0 THEN Round100(score.milli)
    ELSE 0 - Round100(0 - score.milli)

categoryAbbrev(id) ==
    CASE id = "accessibility" -> "A11Y"
      [] id = "best-practices" -> "Best"
      [] id = "performance" -> "Perf"
      [] id = "pwa" -> "PWA"
      [] id = "seo" -> "SEO"
      [] OTHER -> id

CategoryOrderByName == <<"Accessibility", "BestPractices", "Performance", "Pwa", "Seo">>

\* The fields of lhr.Categories in the order readReport visits them.
CategoryOrder == <<"Performance", "Accessibility", "BestPractices", "Seo", "Pwa">>

ReadAudits(refs, audits) ==
    [k \in 1..Len(refs) |->
        [Title |-> audits[refs[k]].Title,
         Score |-> score100(audits[refs[k]].Score),
         Details |-> getDetails(audits[refs[k]].Details)]]

ReadCategory(lhrCat, audits) ==
    [Title |-> lhrCat.Title,
     Abbrev |-> categoryAbbrev(lhrCat.Id),
     Score |-> score100(lhrCat.Score),
     Audits |-> ReadAudits(lhrCat.AuditRefs, audits)]

\* A category field is nil when it is not in the domain of res.Categories.
RECURSIVE ReadCategories(_, _)
ReadCategories(res, k) ==
    IF k > Len(CategoryOrder) THEN <<>>
    ELSE IF CategoryOrder[k] \notin DOMAIN res.Categories
         THEN ReadCategories(res, k + 1)
         ELSE <<ReadCategory(res.Categories[CategoryOrder[k]], res.Audits)>>
              \o ReadCategories(res, k + 1)

MissingAudit(res) ==
    \E c \in DOMAIN res.Categories :
        \E k \in 1..Len(res.Categories[c].AuditRefs) :
            res.Categories[c].AuditRefs[k] \notin DOMAIN res.Audits

\* readReport as it would be if an unresolved reference were skipped
readReportLenient(res) ==
    LET Known(id) == id \in DOMAIN res.Audits
        cats == [f \in DOMAIN res.Categories |->
                    [res.Categories[f] EXCEPT
                        !.AuditRefs = SelectSeq(res.Categories[f].AuditRefs, Known)]]
    IN  [rep |-> [nil |-> FALSE, URL |-> res.Id,
                  Categories |-> ReadCategories([res EXCEPT !.Categories = cats], 1)],
         err |-> "nil"]

readReport(res) ==
    IF MissingAudit(res)
    THEN [rep |-> NilRep, err |-> "missing audit"]
    ELSE [rep |-> [nil |-> FALSE, URL |-> res.Id,
                   Categories |-> ReadCategories(res, 1)],
          err |-> "nil"]

PlaceholderNil(url) == NilRep

\* &report{URL: url}
Placeholder(url) == [nil |-> FALSE, URL |-> url, Categories |-> <<>>]

\* ------------------------------------------------- the API as environment
CanonId(u) == u \o "/"       \* res.Id, the URL as canonicalized by PSI

PerfCat(refs) ==
    [Title |-> "Performance", Id |-> "performance",
     Score |-> NumScore(995), AuditRefs |-> refs]
SeoCat(refs) ==
    [Title |-> "SEO", Id |-> "seo", Score |-> NumScore(830), AuditRefs |-> refs]
RawAudits ==
    ("fcp" :> [Title |-> "First Contentful Paint", Score |-> NumScore(1000),
               Details |-> EmptyRaw])
    @@ ("viewport" :> [Title |-> "Has viewport", Score |-> NilScore,
                       Details |-> TextRaw(<<"{">>)])

\* A well-formed response for u.
GoodRes(u) ==
    [Id |-> CanonId(u),
     Categories |-> ("Seo" :> SeoCat(<<"viewport">>))
                    @@ ("Performance" :> PerfCat(<<"fcp">>)),
     Audits |-> RawAudits]

\* A response whose Performance category references an audit that is absent.
BrokenRes(u) ==
    [Id |-> CanonId(u),
     Categories |-> ("Seo" :> SeoCat(<<"viewport">>))
                    @@ ("Performance" :> PerfCat(<<"fcp", "lcp">>)),
     Audits |-> RawAudits]

\* What svc.Runpagespeed(url)...Do() can return on the n-th call for u.
ApiOutcomes(u, n) ==
    IF n <= failK[u]
    THEN {[err |-> "api", res |-> GoodRes(u)], [err |-> "nil", res |-> BrokenRes(u)]}
    ELSE {[err |-> "nil", res |-> GoodRes(u)]}

getReport(out) ==
    IF out.err # "nil" THEN [rep |-> NilRep, err |-> out.err]
    ELSE readReport(out.res)

\* ------------------------------------------------------------ orchestrator
NewJob(u) == [url |-> u, rep |-> NilRep, err |-> "nil", attempts |-> 0]
ZeroJob == NewJob("")

ChanCapPerWorker == workers
ChanCap == Len(urls)                 \* make(chan job, len(urls))
GoroutinePerUrl == Len(urls)

\* for i := 0; i < *workers; i++ { go func() {...}() }
NumGoroutines == IF workers > 0 THEN workers ELSE 0
Workers == DOMAIN wpc

DoneAt(u) == IF u \in DOMAIN done THEN done[u] ELSE ZeroJob
LenDoneOffByOne == Cardinality(DOMAIN done) + 1

\* len(done)
LenDone == Cardinality(DOMAIN done)

RECURSIVE SumCalls(_)
SumCalls(S) ==
    IF S = {} THEN 0
    ELSE LET u == CHOOSE x \in S : TRUE IN fetchCalls[u] + SumCalls(S \ {u})

ShouldRetryStrict(job) == job.err # "nil" /\ job.attempts < retries
ShouldRetryShared(job) == job.err # "nil" /\ SumCalls(URLS) <= retries
ShouldRetryLoose(job) == job.err # "nil" /\ job.attempts <= retries + 1
ShouldRetryApiOnly(job) == job.err = "api" /\ job.attempts <= retries

\* job.err != nil && job.attempts <= *retries
ShouldRetry(job) == job.err # "nil" /\ job.attempts <= retries

AssembleReversed ==
    [k \in 1..Len(urls) |->
        IF DoneAt(urls[Len(urls) + 1 - k]).err # "nil"
        THEN Placeholder(urls[Len(urls) + 1 - k])
        ELSE DoneAt(urls[Len(urls) + 1 - k]).rep]

AssembleReports ==
    [k \in 1..Len(urls) |->
        IF DoneAt(urls[k]).err # "nil" THEN Placeholder(urls[k])
        ELSE DoneAt(urls[k]).rep]

NoCall == [fn |-> "main"]
Pending == [state |-> "pending"]

Init ==
    /\ urls \in UrlLists
    /\ workers \in 0..MaxWorkers
    /\ retries \in (0 - 1)..MaxRetries
    /\ failK \in [URLS -> 0..MaxFail]
    /\ \A u \in URLS : (\A k \in 1..Len(urls) : urls[k] # u) => failK[u] = 0
    /\ pc = "start"
    /\ seedIdx = 1
    /\ jobs = <<>>
    /\ jobsClosed = FALSE
    /\ results = <<>>
    /\ done = <<>>
    /\ doneOrder = <<>>
    /\ held = ZeroJob
    /\ wpc = <<>>
    /\ wjob = <<>>
    /\ fetchCalls = [u \in URLS |-> 0]
    /\ reports = <<>>
    /\ call = NoCall
    /\ ret = Pending

\* flag.NArg() < 1: print the usage and exit(2).
Usage ==
    /\ pc = "start"
    /\ Len(urls) < 1
    /\ pc' = "exit2"
    /\ UNCHANGED <<urls, workers, retries, failK, seedIdx, jobs, jobsClosed,
                   results, done, doneOrder, held, wpc, wjob, fetchCalls, reports>>
    /\ UNCHANGED <<call, ret>>

\* pso.NewService fails: return 1.
ServiceFail ==
    /\ pc = "start"
    /\ Len(urls) >= 1
    /\ pc' = "exit1"
    /\ UNCHANGED <<urls, workers, retries, failK, seedIdx, jobs, jobsClosed,
                   results, done, doneOrder, held, wpc, wjob, fetchCalls, reports>>
    /\ UNCHANGED <<call, ret>>

\* The channels and the map are made and the worker goroutines are started.
Start ==
    /\ pc = "start"
    /\ Len(urls) >= 1
    /\ wpc' = [w \in 1..NumGoroutines |-> "recv"]
    /\ wjob' = [w \in 1..NumGoroutines |-> ZeroJob]
    /\ pc' = "seed"
    /\ UNCHANGED <<urls, workers, retries, failK, seedIdx, jobs, jobsClosed,
                   results, done, doneOrder, held, fetchCalls, reports>>
    /\ UNCHANGED <<call, ret>>

\* jobs <- job{url: u}, one iteration of the range loop.
Seed ==
    /\ pc = "seed"
    /\ Len(jobs) < ChanCap
    /\ jobs' = Append(jobs, NewJob(urls[seedIdx]))
    /\ seedIdx' = seedIdx + 1
    /\ pc' = IF seedIdx = Len(urls) THEN "loop" ELSE "seed"
    /\ UNCHANGED <<urls, workers, retries, failK, jobsClosed, results, done,
                   doneOrder, held, wpc, wjob, fetchCalls, reports>>
    /\ UNCHANGED <<call, ret>>

\* One iteration of the coordinator loop: job := <-results, then either the
\* retry branch (the send is the action Resend) or done[job.url] = job.
RecvResult ==
    /\ pc = "loop"
    /\ LenDone < Len(urls)
    /\ results # <<>>
    /\ results' = Tail(results)
    /\ IF ShouldRetry(Head(results))
       THEN /\ held' = Head(results)
            /\ pc' = "resend"
            /\ UNCHANGED <<done, doneOrder>>
       ELSE /\ done' = (Head(results).url :> Head(results)) @@ done
            /\ doneOrder' = Append(doneOrder, Head(results).url)
            /\ UNCHANGED <<held, pc>>
    /\ UNCHANGED <<urls, workers, retries, failK, seedIdx, jobs, jobsClosed,
                   wpc, wjob, fetchCalls, reports>>
    /\ UNCHANGED <<call, ret>>

\* jobs <- job in the retry branch.
Resend ==
    /\ pc = "resend"
    /\ Len(jobs) < ChanCap
    /\ jobs' = Append(jobs, held)
    /\ pc' = "loop"
    /\ UNCHANGED <<urls, workers, retries, failK, seedIdx, jobsClosed, results,
                   done, doneOrder, held, wpc, wjob, fetchCalls, reports>>
    /\ UNCHANGED <<call, ret>>

\* The loop condition len(done) < len(urls) is false: close(jobs).
CloseJobs ==
    /\ pc = "loop"
    /\ ~(LenDone < Len(urls))
    /\ jobsClosed' = TRUE
    /\ pc' = "closed"
    /\ UNCHANGED <<urls, workers, retries, failK, seedIdx, jobs, results, done,
                   doneOrder, held, wpc, wjob, fetchCalls, reports>>
    /\ UNCHANGED <<call, ret>>

\* reports := make([]*report, len(urls)) and the loop that fills it.
Assemble ==
    /\ pc = "closed"
    /\ reports' = AssembleReports
    /\ pc' = "done"
    /\ UNCHANGED <<urls, workers, retries, failK, seedIdx, jobs, jobsClosed,
                   results, done, doneOrder, held, wpc, wjob, fetchCalls>>
    /\ UNCHANGED <<call, ret>>

\* for job := range jobs: a job is received.
WorkerRecv(w) ==
    /\ w \in Workers
    /\ wpc[w] = "recv"
    /\ jobs # <<>>
    /\ wjob' = [wjob EXCEPT ![w] = Head(jobs)]
    /\ jobs' = Tail(jobs)
    /\ wpc' = [wpc EXCEPT ![w] = "fetch"]
    /\ UNCHANGED <<urls, workers, retries, failK, pc, seedIdx, jobsClosed,
                   results, done, doneOrder, held, fetchCalls, reports>>
    /\ UNCHANGED <<call, ret>>

\* for job := range jobs: the channel is closed and drained, the goroutine ends.
WorkerExit(w) ==
    /\ w \in Workers
    /\ wpc[w] = "recv"
    /\ jobs = <<>>
    /\ jobsClosed
    /\ wpc' = [wpc EXCEPT ![w] = "exit"]
    /\ UNCHANGED <<urls, workers, retries, failK, pc, seedIdx, jobs, jobsClosed,
                   results, done, doneOrder, held, wjob, fetchCalls, reports>>
    /\ UNCHANGED <<call, ret>>

FetchResult(job, got) ==
    [job EXCEPT !.rep = got.rep, !.err = got.err, !.attempts = job.attempts + 1]

\* job.rep, job.err = getReport(...) returns; job.attempts++.
WorkerFetch(w) ==
    /\ w \in Workers
    /\ wpc[w] = "fetch"
    /\ \E out \in ApiOutcomes(wjob[w].url, fetchCalls[wjob[w].url] + 1) :
          wjob' = [wjob EXCEPT ![w] = FetchResult(wjob[w], getReport(out))]
    /\ fetchCalls' = [fetchCalls EXCEPT ![wjob[w].url] = @ + 1]
    /\ wpc' = [wpc EXCEPT ![w] = "send"]
    /\ UNCHANGED <<urls, workers, retries, failK, pc, seedIdx, jobs, jobsClosed,
                   results, done, doneOrder, held, reports>>
    /\ UNCHANGED <<call, ret>>

\* results <- job
WorkerSend(w) ==
    /\ w \in Workers
    /\ wpc[w] = "send"
    /\ Len(results) < ChanCap
    /\ results' = Append(results, wjob[w])
    /\ wpc' = [wpc EXCEPT ![w] = "recv"]
    /\ UNCHANGED <<urls, workers, retries, failK, pc, seedIdx, jobs, jobsClosed,
                   done, doneOrder, held, wjob, fetchCalls, reports>>
    /\ UNCHANGED <<call, ret>>

Next ==
    \/ Usage
    \/ ServiceFail
    \/ Start
    \/ Seed
    \/ RecvResult
    \/ Resend
    \/ CloseJobs
    \/ Assemble
    \/ \E w \in Workers : WorkerRecv(w)
    \/ \E w \in Workers : WorkerExit(w)
    \/ \E w \in Workers : WorkerFetch(w)
    \/ \E w \in Workers : WorkerSend(w)

Spec == Init /\ [][Next]_vars

\* Every getReport call returns and every goroutine that can run does run.
FairSpec ==
    /\ Spec
    /\ WF_vars(Start) /\ WF_vars(Seed) /\ WF_vars(RecvResult) /\ WF_vars(Resend)
    /\ WF_vars(CloseJobs) /\ WF_vars(Assemble)
    /\ \A w \in 1..MaxWorkers :
          /\ WF_vars(WorkerRecv(w)) /\ WF_vars(WorkerExit(w))
          /\ WF_vars(WorkerFetch(w)) /\ WF_vars(WorkerSend(w))


\* ---------------------------------------------------------- elide (strutil)
\* Index of the first "/" of r after position from, 0 when there is none.
NextSlash(r, from) ==
    IF \E k \in (from + 1)..Len(r) : r[k] = Slash
    THEN CHOOSE k \in (from + 1)..Len(r) :
            r[k] = Slash /\ \A m \in (from + 1)..(k - 1) : r[m] # Slash
    ELSE 0

\* elideURLRegexp.FindStringSubmatch(s) for ^([^/]+://[^/]+/)(.+)$ : the first
\* slash must follow "x:" and be doubled, a non-empty authority without slash
\* runs up to the next slash, and a non-empty rest without newline ends s.
FindStringSubmatch(r) ==
    LET p1 == NextSlash(r, 0)
        p3 == IF p1 = 0 \/ p1 + 1 > Len(r) THEN 0 ELSE NextSlash(r, p1 + 1)
    IN  IF /\ p1 >= 3
           /\ r[p1 - 1] = Colon
           /\ p1 + 1 <= Len(r)
           /\ r[p1 + 1] = Slash
           /\ p3 >= p1 + 3
           /\ p3 < Len(r)
           /\ \A k \in (p3 + 1)..Len(r) : r[k] # Newline
        THEN [nil |-> FALSE, m1 |-> SubSeq(r, 1, p3), m2 |-> SubSeq(r, p3 + 1, Len(r))]
        ELSE [nil |-> TRUE, m1 |-> <<>>, m2 |-> <<>>]

Returned(v) == [state |-> "returned", panic |-> FALSE, val |-> v]
Panicked == [state |-> "returned", panic |-> TRUE, val |-> <<>>]

ElideMiddleLate(url, end, max) ==
    LET head == url \o FirstRunes(end, (max - Len(url)) \div 2 + 1) \o <<Ellipsis>>
        rem == max - Len(head)
    IN  IF rem > 0 THEN head \o LastRunes(end, rem) ELSE head

\* The URL branch of elide: url = ms[1], end = ms[2], len(url) < max < len(s).
ElideMiddle(url, end, max) ==
    LET head == url \o FirstRunes(end, (max - Len(url)) \div 2) \o <<Ellipsis>>
        rem == max - Len(head)
    IN  IF rem > 0 THEN head \o LastRunes(end, rem) ELSE head

TruncateKeepMax(r, max) ==
    IF max < 0 THEN Panicked ELSE Returned(FirstRunes(r, max) \o <<Ellipsis>>)
TruncateNoEllipsis(r, max) ==
    IF max - 1 < 0 THEN Panicked ELSE Returned(FirstRunes(r, max))

TruncateLeadingEllipsis(r, max) ==
    IF max - 1 < 0 THEN Panicked ELSE Returned(<<Ellipsis>> \o FirstRunes(r, max))

\* string(r[:max-1]) + "…" ; the slice expression panics when max-1 < 0.
Truncate(r, max) ==
    IF max - 1 < 0 THEN Panicked ELSE Returned(FirstRunes(r, max - 1) \o <<Ellipsis>>)

elide(s, max) ==
    IF Len(s) <= max THEN Returned(s)
    ELSE LET ms == FindStringSubmatch(s)
         IN  IF ~ms.nil /\ RuneCountInString(ms.m1) < max
             THEN Returned(ElideMiddle(ms.m1, ms.m2, max))
             ELSE Truncate(s, max)

\* ------------------------------------------------------- formatTable (table)
\* fmt.Sprintf("[%d more]", k)
Marker(k) == <<"[">> \o Itoa(k) \o <<" ", "m", "o", "r", "e", "]">>

MoreCountExclusive(total, cap) == total - cap

\* len(lines)-cfg.maxLines+1, len(details)-cfg.maxDetails+1
MoreCount(total, cap) == total - cap + 1

\* The cap on the formatted lines: line cap becomes the marker, the rest goes.
CapLines(lines, cap) ==
    IF cap > 0 /\ Len(lines) > cap
    THEN Append(SubSeq(lines, 1, cap - 1), Marker(MoreCount(Len(lines), cap)))
    ELSE lines

\* widths after the cell val of column j has been visited (columns are
\* counted from 1 here, from 0 in the code and in rightCols).
WidthsCell(widths, j, val) ==
    LET width == RuneCountInString(val)
    IN  IF j - 1 >= Len(widths) THEN Append(widths, width)
        ELSE IF width > widths[j] THEN [widths EXCEPT ![j] = width]
        ELSE widths

RECURSIVE WidthsRow(_, _, _)
WidthsRow(widths, row, j) ==
    IF j > Len(row) THEN widths
    ELSE WidthsRow(WidthsCell(widths, j, row[j]), row, j + 1)

RECURSIVE WidthsRows(_, _, _)
WidthsRows(widths, rows, i) ==
    IF i > Len(rows) THEN widths
    ELSE WidthsRows(WidthsRow(widths, rows[i], 1), rows, i + 1)

\* make([]int, n)
RECURSIVE Zeros(_)
Zeros(n) == IF n = 0 THEN <<>> ELSE Append(Zeros(n - 1), 0)

\* "Find the maximum width for each column", rows non-empty
ColumnWidths(rows) == WidthsRows(Zeros(Len(rows[1])), rows, 1)

\* One pass of the inner rendering loop: what lines[i] is after column j.
RenderCell(line, row, j, widths, spacing, rightCols) ==
    LET val == row[j]
        width == widths[j]
        pad == Spaces(width - RuneCountInString(val))
        right == (j - 1) \in rightCols
    IN  IF width = 0 THEN line
        ELSE IF j - 1 < Len(row) - 1
        THEN line \o (IF right THEN pad ELSE <<>>) \o val
                  \o (IF right THEN <<>> ELSE pad) \o Spaces(spacing)
        ELSE line \o (IF right THEN pad ELSE <<>>) \o val

RECURSIVE RenderRow(_, _, _, _, _, _)
RenderRow(line, row, j, widths, spacing, rightCols) ==
    IF j > Len(row) THEN line
    ELSE RenderRow(RenderCell(line, row, j, widths, spacing, rightCols),
                   row, j + 1, widths, spacing, rightCols)

RenderRows(rows, widths, spacing, rightCols) ==
    [i \in 1..Len(rows) |-> RenderRow(<<>>, rows[i], 1, widths, spacing, rightCols)]

NilErr == [nil |-> TRUE, row |-> 0, got |-> 0, want |-> 0]
\* fmt.Errorf("row %d has %v column(s); want %v", i, len(row), len(rows[0]))
RowErr(i, got, want) == [nil |-> FALSE, row |-> i, got |-> got, want |-> want]

\* The index (from 0) of the first row whose length is not that of row 0.
FirstRagged(rows) ==
    CHOOSE i \in 1..(Len(rows) - 1) :
        /\ Len(rows[i + 1]) # Len(rows[1])
        /\ \A k \in 1..(i - 1) : Len(rows[k + 1]) = Len(rows[1])

\* formatTable of the revision that has tableMaxLines and returns an error:
\* rows of differing lengths are refused, the lines are capped at maxLines.
formatTableMaxLines(rows, spacing, rightCols, maxLines) ==
    IF Len(rows) = 0 THEN [lines |-> <<>>, err |-> NilErr]
    ELSE IF \E i \in 2..Len(rows) : Len(rows[i]) # Len(rows[1])
    THEN [lines |-> <<>>,
          err |-> RowErr(FirstRagged(rows), Len(rows[FirstRagged(rows) + 1]),
                         Len(rows[1]))]
    ELSE [lines |-> CapLines(RenderRows(rows, ColumnWidths(rows), spacing, rightCols),
                             maxLines),
          err |-> NilErr]

formatTableFailFast(rows, spacing, rightCols) ==
    formatTableMaxLines(rows, spacing, rightCols, 0 - 1).lines

\* formatTable(rows, tableSpacing(spacing), tableRightCol(c)...) for
\* spacing >= 0: "Rows can have different numbers of columns."
formatTable(rows, spacing, rightCols) ==
    IF Len(rows) = 0 THEN <<>>
    ELSE RenderRows(rows, ColumnWidths(rows), spacing, rightCols)

\* ------------------------------------------------- writeReport: the details
Indent == Spaces(4)

\* row[j] = elide(val, cfg.detailWidth) for every cell, detailWidth > 0
ElideDetails(details, detailWidth) ==
    [i \in 1..Len(details) |->
        [j \in 1..Len(details[i]) |-> elide(details[i][j], detailWidth).val]]

\* aud.Details once writeReport is through with the audit: elided in place
DetailsAfter(details, maxDetails, detailWidth) ==
    IF Len(details) > 0 /\ maxDetails # 0 /\ detailWidth > 0
    THEN ElideDetails(details, detailWidth)
    ELSE details

\* The lines writeReport prints for the details of one audit, one per Fprintf.
writeReportDetails(details, maxDetails, detailWidth) ==
    IF Len(details) > 0 /\ maxDetails # 0
    THEN LET elided == IF detailWidth > 0 THEN ElideDetails(details, detailWidth)
                       ELSE details
             lines == CapLines(formatTable(elided, 2, {}), maxDetails)
         IN  [i \in 1..Len(lines) |-> Indent \o lines[i]]
    ELSE <<>>

\* ------------------------------------------- text rendering (text.go)
\* the runes of the strings that categoryAbbrev returns
Runes(str) ==
    CASE str = "Perf" -> <<"P", "e", "r", "f">>
      [] str = "A11Y" -> <<"A", "1", "1", "Y">>
      [] str = "Best" -> <<"B", "e", "s", "t">>
      [] str = "SEO" -> <<"S", "E", "O">>
      [] str = "PWA" -> <<"P", "W", "A">>
      [] OTHER -> <<str>>

\* strconv.Itoa
FormatInt(n) == IF n < 0 THEN <<"-">> \o Itoa(0 - n) ELSE Itoa(n)

\* fmt.Sprintf("%3d", n)
Sprintf3d(n) == Spaces(3 - Len(FormatInt(n))) \o FormatInt(n)

\* urlPath for a URL that parses: what follows scheme://authority, the
\* whole string when it has no such prefix.
urlPath(full) ==
    LET p1 == NextSlash(full, 0)
    IN  IF p1 >= 2 /\ full[p1 - 1] = Colon /\ p1 + 1 <= Len(full) /\ full[p1 + 1] = Slash
        THEN IF NextSlash(full, p1 + 1) = 0 THEN <<>>
             ELSE SubSeq(full, NextSlash(full, p1 + 1), Len(full))
        ELSE full

RECURSIVE ConcatAll(_)
ConcatAll(seqs) == IF Len(seqs) = 0 THEN <<>> ELSE seqs[1] \o ConcatAll(Tail(seqs))

\* the index of the first report that has categories, 0 when there is none
FirstWithCategories(reps) ==
    IF \E i \in 1..Len(reps) : Len(reps[i].Categories) > 0
    THEN CHOOSE i \in 1..Len(reps) :
            /\ Len(reps[i].Categories) > 0
            /\ \A k \in 1..(i - 1) : Len(reps[k].Categories) = 0
    ELSE 0

\* the rows writeSummary hands to formatTable
SummaryRows(reps, fullURLs) ==
    LET first == FirstWithCategories(reps)
        heading == <<<<"U", "R", "L">>>>
                   \o (IF first = 0 THEN <<>>
                       ELSE [i \in 1..Len(reps[first].Categories) |->
                                Runes(reps[first].Categories[i].Abbrev)])
    IN  <<heading>>
        \o [r \in 1..Len(reps) |->
               <<IF fullURLs THEN reps[r].URL ELSE urlPath(reps[r].URL)>>
               \o [c \in 1..Len(reps[r].Categories) |->
                      FormatInt(reps[r].Categories[c].Score)]]

\* tableRightCol(i+1) for every category i of the heading
SummaryRightCols(reps) ==
    IF FirstWithCategories(reps) = 0 THEN {}
    ELSE 1..Len(reps[FirstWithCategories(reps)].Categories)

\* writeSummary: the table it builds and the lines it prints
writeSummary(reps, cfg) ==
    [rows |-> SummaryRows(reps, cfg.fullURLs),
     lines |-> formatTable(SummaryRows(reps, cfg.fullURLs), 2, SummaryRightCols(reps))]

Divider == [k \in 1..80 |-> "="]      \* reportDividerLen
Underline == [k \in 1..20 |-> "-"]    \* catUnderlineLen

\* the audit is printed under cfg.audits
AuditShown(aud, cfg) ==
    ~(cfg.audits = "failed" /\ (aud.Score < 0 \/ aud.Score = 100))

\* readReport leaves audit.Value empty, so no ": value" is ever added
AuditLines(aud, cfg) ==
    IF ~AuditShown(aud, cfg) THEN <<>>
    ELSE <<(IF aud.Score >= 0 THEN Sprintf3d(aud.Score) ELSE <<" ", " ", ".">>)
           \o <<" ">> \o aud.Title>>
         \o writeReportDetails(aud.Details, cfg.maxDetails, cfg.detailWidth)

CategoryLines(cat, cfg) ==
    <<Sprintf3d(cat.Score) \o <<" ">> \o cat.Title>>
    \o (IF cfg.audits = "none" THEN <<>>
        ELSE <<Underline>>
             \o ConcatAll([a \in 1..Len(cat.Audits) |-> AuditLines(cat.Audits[a], cfg)])
             \o <<<<>>>>)

\* the audit once writeReport has run: only a printed audit is touched
AuditAfter(aud, cfg) ==
    IF cfg.audits # "none" /\ AuditShown(aud, cfg)
    THEN [aud EXCEPT !.Details = DetailsAfter(aud.Details, cfg.maxDetails, cfg.detailWidth)]
    ELSE aud

ReportAfter(rep, cfg) ==
    [rep EXCEPT !.Categories =
        [c \in 1..Len(rep.Categories) |->
            [rep.Categories[c] EXCEPT !.Audits =
                [a \in 1..Len(rep.Categories[c].Audits) |->
                    AuditAfter(rep.Categories[c].Audits[a], cfg)]]]]

\* writeReport: the lines it prints and the report as it leaves it
writeReport(rep, cfg) ==
    [lines |-> <<rep.URL, <<>>>>
               \o ConcatAll([c \in 1..Len(rep.Categories) |->
                                CategoryLines(rep.Categories[c], cfg)]),
     rep |-> ReportAfter(rep, cfg)]

\* writeReports as it would be if reports without categories were left out
writeReportsSkipFailed(reps, cfg) ==
    [lines |-> ConcatAll([r \in 1..Len(reps) |->
                             IF Len(reps[r].Categories) = 0 THEN <<>>
                             ELSE <<Divider, <<>>>> \o writeReport(reps[r], cfg).lines]),
     reps |-> [r \in 1..Len(reps) |-> writeReport(reps[r], cfg).rep]]

\* writeReports: a divider and an empty line before every report
writeReports(reps, cfg) ==
    [lines |-> ConcatAll([r \in 1..Len(reps) |->
                             <<Divider, <<>>>> \o writeReport(reps[r], cfg).lines]),
     reps |-> [r \in 1..Len(reps) |-> writeReport(reps[r], cfg).rep]]

\* ------------------------------------- calls of the functions outside main
mainVars == <<urls, workers, retries, failK, pc, seedIdx, jobs, jobsClosed,
              results, done, doneOrder, held, wpc, wjob, fetchCalls, reports>>

\* main is not running: only the function named by call is exercised.
MainIdle ==
    /\ urls = <<>>
    /\ workers = 0
    /\ retries = 0
    /\ failK = [u \in URLS |-> 0]
    /\ pc = "start"
    /\ seedIdx = 1
    /\ jobs = <<>>
    /\ jobsClosed = FALSE
    /\ results = <<>>
    /\ done = <<>>
    /\ doneOrder = <<>>
    /\ held = ZeroJob
    /\ wpc = <<>>
    /\ wjob = <<>>
    /\ fetchCalls = [u \in URLS |-> 0]
    /\ reports = <<>>

StringsUpTo(alphabet, n) == UNION {[1..k -> alphabet] : k \in 0..n}

MaxStrLen == 4     \* longest string over the full alphabet
MaxRest == 4       \* longest remainder appended to a URL-like prefix
MaxMax == 12       \* largest max handed to elide

\* scheme://authority/ prefixes and two near misses (single slash, no scheme).
UrlPrefixes ==
    {<<"a", Colon, Slash, Slash, "a", Slash>>,
     <<"a", Colon, Slash, Slash, EAcute, "a", Slash>>,
     <<"a", Colon, Slash, "a", Slash, Slash>>,
     <<Colon, Slash, Slash, "a", Slash, "a">>}

ElideStrings ==
    StringsUpTo({"a", EAcute, Slash, Colon}, MaxStrLen)
    \cup {p \o r : p \in UrlPrefixes, r \in StringsUpTo({"a", EAcute, Slash}, MaxRest)}
    \cup {<<"a", Colon, Slash, Slash, "a", Slash, "a", Newline, "a", "a">>}

ElideInit ==
    /\ MainIdle
    /\ call \in {[fn |-> "elide", s |-> s, max |-> m] :
                    s \in ElideStrings, m \in (0 - 1)..MaxMax}
    /\ ret = Pending

ElideCall ==
    /\ call.fn = "elide"
    /\ ret = Pending
    /\ ret' = elide(call.s, call.max)
    /\ UNCHANGED <<mainVars, call>>

ElideNext == ElideCall

ElideSpec == ElideInit /\ [][ElideNext]_vars

MaxCols == 3         \* most cells in a row handed to formatTable
MaxRows == 2         \* most rows handed to formatTable
MaxSpacing == 2      \* largest tableSpacing
MaxDetailRows == 4   \* most rows of an audit's details
MaxCap == 5          \* largest -details / tableMaxLines value

TableCells == {<<>>, <<"a">>, <<EAcute>>, <<"a", "a">>}
TableRows == UNION {[1..n -> TableCells] : n \in 0..MaxCols}
TableInputs == UNION {[1..n -> TableRows] : n \in 0..MaxRows}

\* rows of an audit's details: of differing lengths, with a cell to elide
DetailRows == {<<<<"a">>>>, <<<<"a", "a", EAcute>>, <<EAcute>>>>, <<<<>>, <<"a">>>>}
DetailInputs == UNION {[1..n -> DetailRows] : n \in 0..MaxDetailRows}

TableInit ==
    /\ MainIdle
    /\ call \in
         {[fn |-> "formatTable", rows |-> r, spacing |-> sp, rightCols |-> rc] :
             r \in TableInputs, sp \in 0..MaxSpacing, rc \in SUBSET (0..(MaxCols - 1))}
         \cup
         {[fn |-> "writeReport", details |-> d, maxDetails |-> c, detailWidth |-> w] :
             d \in DetailInputs, c \in (0 - 1)..MaxCap, w \in (0 - 1)..2}
         \cup
         {[fn |-> "formatTableMaxLines", rows |-> d, maxLines |-> c] :
             d \in DetailInputs, c \in (0 - 1)..MaxCap}
    /\ ret = Pending

FormatTableCall ==
    /\ call.fn = "formatTable"
    /\ ret = Pending
    /\ ret' = Returned(formatTable(call.rows, call.spacing, call.rightCols))
    /\ UNCHANGED <<mainVars, call>>

WriteReportCall ==
    /\ call.fn = "writeReport"
    /\ ret = Pending
    /\ ret' = [state |-> "returned", panic |-> FALSE,
               val |-> writeReportDetails(call.details, call.maxDetails, call.detailWidth),
               mem |-> DetailsAfter(call.details, call.maxDetails, call.detailWidth)]
    /\ UNCHANGED <<mainVars, call>>

\* formatTable(aud.Details, tableSpacing(2), tableMaxLines(maxLines))
FormatTableMaxLinesCall ==
    /\ call.fn = "formatTableMaxLines"
    /\ ret = Pending
    /\ ret' = Returned(formatTableMaxLines(call.rows, 2, {}, call.maxLines))
    /\ UNCHANGED <<mainVars, call>>

TableNext == FormatTableCall \/ WriteReportCall \/ FormatTableMaxLinesCall

TableSpec == TableInit /\ [][TableNext]_vars

\* ---------------------------------------------------- calls of readReport
\* Title and Id of the category the API puts in each field of lhr.Categories.
LhrTitle ==
    ("Performance" :> "Performance") @@ ("Accessibility" :> "Accessibility")
    @@ ("BestPractices" :> "Best Practices") @@ ("Seo" :> "SEO") @@ ("Pwa" :> "PWA")
LhrId ==
    ("Performance" :> "performance") @@ ("Accessibility" :> "accessibility")
    @@ ("BestPractices" :> "best-practices") @@ ("Seo" :> "seo") @@ ("Pwa" :> "pwa")

LhrCategory(field, refs) ==
    [Title |-> LhrTitle[field], Id |-> LhrId[field],
     Score |-> NumScore(830), AuditRefs |-> refs]

\* audit references of a category; "lcp" is not among the audits
LhrRefs == {<<>>, <<"fcp">>, <<"viewport", "fcp">>, <<"viewport", "lcp">>}

\* responses with any set of the five categories present
LhrResults ==
    UNION {{[Id |-> CanonId("u1"),
             Categories |-> [f \in present |-> LhrCategory(f, refs[f])],
             Audits |-> RawAudits] : refs \in [present -> LhrRefs]} :
           present \in SUBSET {CategoryOrder[k] : k \in 1..Len(CategoryOrder)}}

ReadReportInit ==
    /\ MainIdle
    /\ call \in {[fn |-> "readReport", res |-> r] : r \in LhrResults}
    /\ ret = Pending

ReadReportCall ==
    /\ call.fn = "readReport"
    /\ ret = Pending
    /\ ret' = Returned(readReport(call.res))
    /\ UNCHANGED <<mainVars, call>>

ReadReportNext == ReadReportCall

ReadReportSpec == ReadReportInit /\ [][ReadReportNext]_vars

\* ------------------------------------------------------ calls of score100
ScoreInputs == {NilScore} \cup {NumScore(m) : m \in 0..MaxMilli}

ScoreInit ==
    /\ MainIdle
    /\ call \in {[fn |-> "score100", score |-> sc] : sc \in ScoreInputs}
    /\ ret = Pending

ScoreCall ==
    /\ call.fn = "score100"
    /\ ret = Pending
    /\ ret' = Returned(score100(call.score))
    /\ UNCHANGED <<mainVars, call>>

ScoreNext == ScoreCall

ScoreSpec == ScoreInit /\ [][ScoreNext]_vars

\* ----------------------------------------------------- calls of getDetails
MaxHeadings == 2     \* most headings of a details payload
MaxItems == 2        \* most items of a details payload

DetailHeadings ==
    {[Key |-> "url", Text |-> <<" ", "U", "R", "L", " ">>, Label |-> <<>>, ItemType |-> "url"],
     [Key |-> "ms", Text |-> <<>>, Label |-> <<"T", "i", "m", "e">>, ItemType |-> "ms"],
     [Key |-> "size", Text |-> <<"S", "i", "z", "e">>, Label |-> <<"L">>, ItemType |-> "bytes"],
     [Key |-> "n", Text |-> <<>>, Label |-> <<>>, ItemType |-> "numeric"]}

DetailItems ==
    {("url" :> StrVal(<<" ", "a", " ">>)) @@ ("ms" :> NumVal(125))
        @@ ("size" :> NumVal(20)) @@ ("n" :> NumVal(3)),
     ("url" :> MapVal(SomeStr(<<"s">>), SomeStr(<<"u">>))) @@ ("ms" :> StrVal(<<"b">>)),
     ("url" :> MapVal(NoStr, SomeStr(<<"u">>))) @@ ("size" :> NumVal(5)),
     ("url" :> MapVal(NoStr, NoStr)) @@ ("ms" :> BoolVal) @@ ("n" :> NumVal(15)),
     ("other" :> StrVal(<<"x">>))}

RawDetails ==
    {EmptyRaw, TextRaw(<<"[", "1", "]">>), TextRaw(<<"{">>)}
    \cup {JsonRaw(hs, is) :
            hs \in UNION {[1..n -> DetailHeadings] : n \in 0..MaxHeadings},
            is \in UNION {[1..n -> DetailItems] : n \in 0..MaxItems}}

DetailsInit ==
    /\ MainIdle
    /\ call \in {[fn |-> "getDetails", raw |-> r] : r \in RawDetails}
    /\ ret = Pending

DetailsCall ==
    /\ call.fn = "getDetails"
    /\ ret = Pending
    /\ ret' = Returned(getDetails(call.raw))
    /\ UNCHANGED <<mainVars, call>>

DetailsNext == DetailsCall

DetailsSpec == DetailsInit /\ [][DetailsNext]_vars

\* ------------------------------------- calls of writeSummary, writeReports
MaxReps == 2         \* most reports handed to writeSummary / writeReports

RenderAudits ==
    ("css" :> [Title |-> <<"C", "S", "S">>, Score |-> NumScore(890),
               Details |-> JsonRaw(
                   <<[Key |-> "url", Text |-> <<"U", "R", "L">>, Label |-> <<>>,
                      ItemType |-> "url"],
                     [Key |-> "size", Text |-> <<>>, Label |-> <<"S", "i", "z", "e">>,
                      ItemType |-> "bytes"]>>,
                   <<("url" :> StrVal(<<"h", Colon, Slash, Slash, "a", Slash, "a", "b", "c">>))
                        @@ ("size" :> NumVal(200)),
                     ("url" :> StrVal(<<"x">>)),
                     ("size" :> NumVal(15))>>)])
    @@ ("fcp" :> [Title |-> <<"F", "C", "P">>, Score |-> NumScore(1000),
                  Details |-> EmptyRaw])
    @@ ("vp" :> [Title |-> <<"V", "P">>, Score |-> NilScore,
                 Details |-> TextRaw(<<"{", "a", "b", "c">>)])

RenderCategory(title, id, milli, refs) ==
    [Title |-> title, Id |-> id, Score |-> NumScore(milli), AuditRefs |-> refs]

\* two responses that hold different sets of categories
RenderResA ==
    [Id |-> <<"h", Colon, Slash, Slash, "a", Slash, "p">>,
     Categories |->
        ("Performance" :> RenderCategory(<<"P", "e", "r", "f">>, "performance", 995,
                                         <<"css", "fcp">>))
        @@ ("Accessibility" :> RenderCategory(<<"A", "c", "c">>, "accessibility", 970,
                                              <<"vp">>))
        @@ ("Seo" :> RenderCategory(<<"S", "E", "O">>, "seo", 830, <<>>)),
     Audits |-> RenderAudits]
RenderResB ==
    [Id |-> <<"h", Colon, Slash, Slash, "a", Slash, "q">>,
     Categories |->
        ("Performance" :> RenderCategory(<<"P", "e", "r", "f">>, "performance", 500,
                                         <<"css">>))
        @@ ("Seo" :> RenderCategory(<<"S", "E", "O">>, "seo", 920, <<"vp">>)),
     Audits |-> RenderAudits]

\* what main hands on: reports that readReport built, placeholders for failures
RenderReports ==
    {readReport(RenderResA).rep, readReport(RenderResB).rep,
     Placeholder(<<"h", Colon, Slash, Slash, "b", Slash>>)}

RenderConfigs ==
    [fullURLs : BOOLEAN, audits : {"failed", "all", "none"},
     maxDetails : {0 - 1, 0, 2}, detailWidth : {0 - 1, 3}]

RenderInit ==
    /\ MainIdle
    /\ call \in {[fn |-> f, reps |-> rs, cfg |-> c] :
                    f \in {"writeSummary", "writeReports"},
                    rs \in UNION {[1..n -> RenderReports] : n \in 0..MaxReps},
                    c \in RenderConfigs}
    /\ ret = Pending

WriteSummaryCall ==
    /\ call.fn = "writeSummary"
    /\ ret = Pending
    /\ ret' = Returned(writeSummary(call.reps, call.cfg))
    /\ UNCHANGED <<mainVars, call>>

\* ret.mem is what the reports are once the call is over, ret.round counts the
\* calls made on them and ret.prev is what the call before printed.
WriteReportsCall ==
    /\ call.fn = "writeReports"
    /\ ret = Pending
    /\ ret' = [state |-> "returned", panic |-> FALSE,
               val |-> writeReports(call.reps, call.cfg).lines,
               mem |-> writeReports(call.reps, call.cfg).reps,
               round |-> 1, prev |-> <<>>]
    /\ UNCHANGED <<mainVars, call>>

\* the same reports are written once more (the copy function of the mail
\* attachment runs whenever the message is written)
WriteReportsAgain ==
    /\ call.fn = "writeReports"
    /\ ret.state = "returned"
    /\ ret.round = 1
    /\ ret' = [state |-> "returned", panic |-> FALSE,
               val |-> writeReports(ret.mem, call.cfg).lines,
               mem |-> writeReports(ret.mem, call.cfg).reps,
               round |-> 2, prev |-> ret.val]
    /\ UNCHANGED <<mainVars, call>>

RenderNext == WriteSummaryCall \/ WriteReportsCall \/ WriteReportsAgain

RenderSpec == RenderInit /\ [][RenderNext]_vars

\* elide called on its own and by writeReport, which runs twice on one report
IdempotenceInit == ElideInit \/ RenderInit

IdempotenceNext == ElideNext \/ RenderNext

IdempotenceSpec == IdempotenceInit /\ [][IdempotenceNext]_vars

\* ------------------------------------------------------- auxiliary notions
Min2(a, b) == IF a <= b THEN a ELSE b
Distinct(seq) == \A i, j \in 1..Len(seq) : i # j => seq[i] # seq[j]
Occurrences(u) == Cardinality({k \in 1..Len(urls) : urls[k] = u})
CountIn(chan, u) == Cardinality({k \in 1..Len(chan) : chan[k].url = u})
Fetching == {w \in Workers : wpc[w] = "fetch"}

\* Jobs for u that exist outside the done map.
InFlight(u) ==
    CountIn(jobs, u) + CountIn(results, u)
    + Cardinality({w \in Workers : wpc[w] \in {"fetch", "send"} /\ wjob[w].url = u})
    + (IF pc = "resend" /\ held.url = u THEN 1 ELSE 0)

Seeded(u) == \E k \in 1..Len(urls) : urls[k] = u /\ k < seedIdx

\* The retries a URL can get: a negative -retries value allows none.
Budget == IF retries > 0 THEN retries ELSE 0
AlwaysFails(u) == failK[u] > Budget
PlannedCalls(u) == Min2(failK[u] + 1, Budget + 1)
GoodReport(u) == readReport(GoodRes(u)).rep
PlannedReport(u) == IF AlwaysFails(u) THEN Placeholder(u) ELSE GoodReport(u)
JobAsPlanned(u, job) ==
    /\ job.url = u
    /\ job.attempts = PlannedCalls(u)
    /\ IF AlwaysFails(u)
       THEN job.err # "nil" /\ job.rep = NilRep
       ELSE job.err = "nil" /\ job.rep = GoodReport(u)

\* ----------------------------------------------------------------- claims

\* C1: when main has assembled its output, reports has len(urls) elements and
\* reports[i] is the outcome the done map records for urls[i]: the report of
\* the job stored under the key urls[i], or the placeholder for urls[i] when
\* that job carries an error, whatever the completion order and the retries.
C1_OrderPreservation ==
    pc = "done" =>
        /\ Len(reports) = Len(urls)
        /\ \A i \in 1..Len(urls) :
              /\ urls[i] \in DOMAIN done
              /\ done[urls[i]].url = urls[i]
              /\ IF done[urls[i]].err # "nil"
                 THEN reports[i] = [nil |-> FALSE, URL |-> urls[i], Categories |-> <<>>]
                 ELSE reports[i] = done[urls[i]].rep /\ reports[i].URL = CanonId(urls[i])

\* The second URL was finalized before the first one, which needed a retry.
C1_Witness ==
    /\ pc = "done"
    /\ Len(urls) = 2
    /\ doneOrder = <<urls[2], urls[1]>>
    /\ fetchCalls[urls[1]] = 2

\* C2 (as claimed): every write to the done map creates a new key (no entry is
\* overwritten, one write per input position) and once the coordinator loop
\* has ended the number of recorded outcomes equals len(urls); also once every
\* seeded job has been finalized, the map holds len(urls) entries.
C2_OneOutcomePerUrl ==
    /\ Len(doneOrder) = LenDone
    /\ pc \in {"closed", "done"} => Len(doneOrder) = Len(urls)
    /\ Len(doneOrder) = Len(urls) => LenDone = Len(urls)

\* C3: with pairwise-distinct URLs and retries >= 0, a URL whose fetch fails
\* exactly k times and then succeeds is fetched min(k+1, retries+1) times, ends
\* with its successful report and no error when k <= retries, and ends as a
\* failure (placeholder in the output) when k > retries.
C3_RetryBudgetExact ==
    (Distinct(urls) /\ retries >= 0) =>
        /\ \A u \in URLS : fetchCalls[u] <= Min2(failK[u] + 1, retries + 1)
        /\ \A u \in DOMAIN done :
              /\ fetchCalls[u] = Min2(failK[u] + 1, retries + 1)
              /\ failK[u] <= retries =>
                    done[u] = [url |-> u, rep |-> GoodReport(u), err |-> "nil",
                               attempts |-> failK[u] + 1]
              /\ failK[u] > retries =>
                    /\ done[u].err # "nil"
                    /\ done[u].rep = NilRep
                    /\ done[u].attempts = retries + 1
        /\ pc = "done" =>
              \A i \in 1..Len(urls) :
                  reports[i] = IF failK[urls[i]] <= retries
                               THEN GoodReport(urls[i])
                               ELSE Placeholder(urls[i])

\* A URL that failed once was retried and finalized with its good report.
C3_Witness ==
    /\ Distinct(urls)
    /\ retries = 1
    /\ \E u \in DOMAIN done :
          /\ failK[u] = 1
          /\ fetchCalls[u] = 2
          /\ done[u].err = "nil"
          /\ done[u].rep = GoodReport(u)

\* C4: when some URL v fails on every attempt, every other URL u (occurring
\* once in the input) is processed as its own fetch behaviour and the retry
\* budget alone determine, exactly as if v had succeeded: its job is never
\* dropped, it is fetched no more often than planned, its done entry and its
\* position in the output are the planned ones.
C4_FailureIsolation ==
    \A v \in URLS : (Occurrences(v) >= 1 /\ AlwaysFails(v)) =>
        \A u \in URLS \ {v} : Occurrences(u) = 1 =>
            /\ fetchCalls[u] <= PlannedCalls(u)
            /\ u \in DOMAIN done => JobAsPlanned(u, done[u])
            /\ (Seeded(u) /\ u \notin DOMAIN done) => InFlight(u) = 1
            /\ u \in DOMAIN done => InFlight(u) = 0
            /\ pc = "done" =>
                  \A i \in 1..Len(urls) : urls[i] = u => reports[i] = PlannedReport(u)

\* The first URL failed on both attempts, the second was retried once and
\* still delivered its report.
C4_Witness ==
    /\ pc = "done"
    /\ Len(urls) = 2
    /\ retries = 1
    /\ AlwaysFails(urls[1])
    /\ fetchCalls[urls[1]] = 2
    /\ failK[urls[2]] = 1
    /\ reports[1] = Placeholder(urls[1])
    /\ reports[2] = GoodReport(urls[2])

\* C5 (as claimed): for every URL string at most one job carrying it exists
\* outside the done map (jobs channel, a worker, results channel, coordinator),
\* and at most one fetch for it is in flight.
C5_OneJobPerUrl ==
    \A u \in URLS :
        /\ InFlight(u) <= 1
        /\ Cardinality({w \in Fetching : wjob[w].url = u}) <= 1

\* C6: the number of getReport calls executing at the same time never exceeds
\* the configured worker count.
C6_BoundedConcurrency == Cardinality(Fetching) <= workers

\* Every worker is inside getReport while another job waits in the channel.
C6_Witness ==
    /\ workers >= 1
    /\ Cardinality(Fetching) = workers
    /\ jobs # <<>>

\* C7 (as claimed): for a non-empty URL list and at least one worker, once the
\* workers are started the coordinator loop eventually ends, jobs is closed
\* and the ordered output is assembled.
C7_Termination ==
    (pc = "seed" /\ workers >= 1)
        ~> (pc = "done" /\ jobsClosed /\ Len(reports) = Len(urls))

\* C8 (as claimed): with zero workers and a non-empty URL list nothing is
\* seeded and main does not wait on the results channel.
C8_ZeroWorkersRejected ==
    (workers = 0 /\ Len(urls) >= 1) =>
        /\ jobs = <<>>
        /\ seedIdx = 1
        /\ pc \notin {"seed", "loop", "resend"}

\* C9: a URL whose last allowed attempt fails gets, at its own position of the
\* assembled output, a non-nil report with the input URL string and no
\* categories, and main reaches the end of the assembly.
C9_ExhaustedPlaceholder ==
    pc = "done" =>
        \A i \in 1..Len(urls) : AlwaysFails(urls[i]) =>
            /\ reports[i].nil = FALSE
            /\ reports[i].URL = urls[i]
            /\ reports[i].Categories = <<>>

\* One URL used up its retry and failed, the other one has its categories.
C9_Witness ==
    /\ pc = "done"
    /\ Len(urls) = 2
    /\ \E i, j \in 1..2 :
          /\ AlwaysFails(urls[i])
          /\ fetchCalls[urls[i]] = 2
          /\ reports[i] = [nil |-> FALSE, URL |-> urls[i], Categories |-> <<>>]
          /\ reports[j].Categories # <<>>

\* C10: a result whose error comes from readReport (missing audit) is treated
\* by the coordinator like any failed call: re-sent while attempts <= retries,
\* otherwise stored in the done map, and it then yields the placeholder.
C10_ErrorKindsAlike ==
    [][/\ (pc = "loop" /\ results # <<>> /\ results' = Tail(results)
             /\ Head(results).err = "missing audit") =>
            IF Head(results).attempts <= retries
            THEN pc' = "resend" /\ held' = Head(results) /\ done' = done
            ELSE /\ pc' = "loop"
                 /\ Head(results).url \in DOMAIN done'
                 /\ done'[Head(results).url] = Head(results)
       /\ (pc = "resend" /\ pc' = "loop" /\ held.err = "missing audit") =>
            jobs' = Append(jobs, held)
       /\ (pc = "closed" /\ pc' = "done") =>
            \A i \in 1..Len(urls) :
                DoneAt(urls[i]).err = "missing audit" =>
                    reports'[i] = [nil |-> FALSE, URL |-> urls[i], Categories |-> <<>>]
      ]_vars

\* A job whose attempts all ended in an error, the last one from readReport,
\* was retried once and then finalized.
C10_Witness ==
    /\ pc = "done"
    /\ \E u \in DOMAIN done :
          /\ done[u].err = "missing audit"
          /\ done[u].attempts = 2

\* ------------------------------------------------------ claims about elide
ElideReturned == call.fn = "elide" /\ ret.state = "returned"

\* s has the shape scheme://authority/rest with a prefix of p runes: a
\* non-empty scheme and authority without slash, and a non-empty rest without
\* line break (the regular expression's "." matches no line break).
UrlShape(s, p) ==
    /\ p < Len(s)
    /\ s[p] = Slash
    /\ \E a \in 1..(p - 5) :
          /\ \A k \in 1..a : s[k] # Slash
          /\ s[a + 1] = Colon /\ s[a + 2] = Slash /\ s[a + 3] = Slash
          /\ \A k \in (a + 4)..(p - 1) : s[k] # Slash
    /\ \A k \in (p + 1)..Len(s) : s[k] # Newline

\* C16: for max >= 1, elide(s, max) has at most max runes; it is s itself when
\* s has at most max runes, and otherwise has exactly max runes: a prefix of
\* s, one inserted ellipsis and a suffix of s.
C16_ElideLengthBound ==
    (ElideReturned /\ call.max >= 1) =>
        /\ ~ret.panic
        /\ Len(ret.val) <= call.max
        /\ Len(call.s) <= call.max => ret.val = call.s
        /\ Len(call.s) > call.max =>
              /\ Len(ret.val) = call.max
              /\ \E h \in 0..(call.max - 1) :
                    ret.val = SubSeq(call.s, 1, h) \o <<Ellipsis>>
                              \o SubSeq(call.s, Len(call.s) - (call.max - 1 - h) + 1,
                                        Len(call.s))

\* A URL one rune too long, shortened in the middle to exactly max runes,
\* two of them of more than one byte.
C16_Witness ==
    /\ ElideReturned
    /\ call.max = 10
    /\ Len(call.s) = 11
    /\ UrlShape(call.s, 7)
    /\ Len(ret.val) = 10
    /\ ret.val[9] = Ellipsis
    /\ ret.val[10] = EAcute

\* C17: when s is longer than max and has the shape scheme://authority/rest
\* with a prefix of p < max runes, the result is the prefix, the first
\* floor((max-p)/2) runes of rest, one ellipsis and the last
\* max-p-floor((max-p)/2)-1 runes of rest; head and tail lie inside rest and do
\* not overlap.
C17_ElideUrlMiddle ==
    ElideReturned =>
        \A p \in 1..Len(call.s) :
            (UrlShape(call.s, p) /\ Len(call.s) > call.max /\ p < call.max) =>
                LET h == (call.max - p) \div 2
                    t == call.max - p - h - 1
                IN  /\ ~ret.panic
                    /\ ret.val = SubSeq(call.s, 1, p) \o SubSeq(call.s, p + 1, p + h)
                                 \o <<Ellipsis>>
                                 \o SubSeq(call.s, Len(call.s) - t + 1, Len(call.s))
                    /\ t >= 0
                    /\ p + h < Len(call.s) - t + 1

\* A URL whose rest keeps its first and its last rune around the ellipsis.
C17_Witness ==
    /\ ElideReturned
    /\ UrlShape(call.s, 6)
    /\ call.max = 9
    /\ Len(call.s) = 10
    /\ SubSeq(ret.val, 7, 9) = <<call.s[7], Ellipsis, call.s[10]>>

\* C18: when s is longer than max >= 1 and is not URL-shaped, or its prefix
\* has at least max runes, the result is the first max-1 runes of s followed
\* by one ellipsis.
C18_ElidePrefixTruncation ==
    (ElideReturned /\ call.max >= 1 /\ Len(call.s) > call.max
       /\ \A p \in 1..Len(call.s) : UrlShape(call.s, p) => p >= call.max) =>
        /\ ~ret.panic
        /\ ret.val = SubSeq(call.s, 1, call.max - 1) \o <<Ellipsis>>

\* A URL whose prefix alone already fills max.
C18_Witness ==
    /\ ElideReturned
    /\ UrlShape(call.s, 7)
    /\ call.max = 7
    /\ Len(call.s) = 9
    /\ ret.val = SubSeq(call.s, 1, 6) \o <<Ellipsis>>

\* C19 (as claimed): for max <= 0 or max = 1 elide returns a string without
\* failing, and for max = 1 and a longer s the result is the ellipsis alone.
C19_ElideSmallMax ==
    (ElideReturned /\ call.max <= 1) =>
        /\ ~ret.panic
        /\ (call.max = 1 /\ Len(call.s) > 1) => ret.val = <<Ellipsis>>

\* ------------------------------------------------ claims about formatTable
TableReturned == call.fn = "formatTable" /\ ret.state = "returned"

Max(S) == CHOOSE x \in S : \A y \in S : y <= x

\* The width of column j: the longest cell among the rows that have column j.
ColWidth(rows, j) ==
    Max({0} \cup {Len(rows[i][j]) : i \in {k \in 1..Len(rows) : j <= Len(rows[k])}})

\* The number of positions the rendered columns before column j take up.
RECURSIVE Offset(_, _, _)
Offset(rows, spacing, j) ==
    IF j <= 1 THEN 0
    ELSE Offset(rows, spacing, j - 1)
         + (IF ColWidth(rows, j - 1) > 0 THEN ColWidth(rows, j - 1) + spacing ELSE 0)

AllSpaces(line, from, to) == \A k \in from..to : line[k] = " "

\* Cell j of row sits in line at its column's position, padded on its side.
CellAligned(rows, spacing, rightCols, line, row, j) ==
    LET w == ColWidth(rows, j)
        off == Offset(rows, spacing, j)
        n == Len(row[j])
    IN  IF (j - 1) \in rightCols
        THEN /\ Len(line) >= off + w
             /\ AllSpaces(line, off + 1, off + w - n)
             /\ SubSeq(line, off + w - n + 1, off + w) = row[j]
        ELSE /\ Len(line) >= off + n
             /\ SubSeq(line, off + 1, off + n) = row[j]
             /\ (j < Len(row) =>
                    /\ Len(line) >= off + w
                    /\ AllSpaces(line, off + n + 1, off + w))

\* C11: the width of a column is the largest code-point count of its cells;
\* in every line each rendered cell of a right-aligned column is preceded by
\* spaces up to that width and each rendered cell of another column that is not
\* the last of its row is followed by spaces up to that width, so the cells of
\* a column start (or, right-aligned, end) at one position in every line.
C11_ColumnAlignment ==
    TableReturned =>
        /\ Len(ret.val) = Len(call.rows)
        /\ \A i \in 1..Len(call.rows) : \A j \in 1..Len(call.rows[i]) :
              ColWidth(call.rows, j) > 0 =>
                  CellAligned(call.rows, call.spacing, call.rightCols,
                              ret.val[i], call.rows[i], j)

C11_Witness ==
    /\ TableReturned
    /\ call.rows = <<<<<<EAcute>>, <<"a", "a">>>>, <<<<"a", "a">>, <<"a">>>>>>
    /\ call.spacing = 2
    /\ call.rightCols = {0}
    /\ ret.val = <<<<" ", EAcute, " ", " ", "a", "a">>, <<"a", "a", " ", " ", "a">>>>

RemoveAt(row, j) ==
    IF j <= Len(row) THEN SubSeq(row, 1, j - 1) \o SubSeq(row, j + 1, Len(row)) ELSE row
RemoveCol(rows, j) == [i \in 1..Len(rows) |-> RemoveAt(rows[i], j)]
\* the right-aligned set once column j (counted from 1) is gone
ShiftCols(rightCols, j) ==
    {c \in rightCols : c < j - 1} \cup {c - 1 : c \in {d \in rightCols : d > j - 1}}

\* C12: a column whose width is 0 leaves no trace: the lines are those of the
\* same rows without that column.
C12_EmptyColumnOmitted ==
    TableReturned =>
        \A j \in 1..MaxCols :
            ((\E i \in 1..Len(call.rows) : j <= Len(call.rows[i]))
                /\ ColWidth(call.rows, j) = 0)
            => ret.val = formatTable(RemoveCol(call.rows, j), call.spacing,
                                     ShiftCols(call.rightCols, j))

\* the last column of row that is rendered, 0 when none is
LastRendered(rows, row) == Max({0} \cup {j \in 1..Len(row) : ColWidth(rows, j) > 0})

\* C13: in every line exactly spacing spaces lie between a rendered column and
\* the next rendered one, and nothing follows the field of the last rendered
\* cell of the row, trailing empty columns included.
C13_Separators ==
    TableReturned =>
        /\ Len(ret.val) = Len(call.rows)
        /\ \A i \in 1..Len(call.rows) :
            LET row == call.rows[i]
                line == ret.val[i]
                jl == LastRendered(call.rows, row)
            IN  /\ IF jl = 0 THEN line = <<>>
                   ELSE Len(line) <= Offset(call.rows, call.spacing, jl)
                                     + ColWidth(call.rows, jl)
                /\ \A j \in 1..(jl - 1) :
                      ColWidth(call.rows, j) > 0 =>
                          LET end == Offset(call.rows, call.spacing, j) + ColWidth(call.rows, j)
                          IN  /\ Len(line) >= end + call.spacing
                              /\ AllSpaces(line, end + 1, end + call.spacing)

RECURSIVE Flatten(_)
Flatten(row) == IF row = <<>> THEN <<>> ELSE Head(row) \o Flatten(Tail(row))
NotSpace(c) == c # " "
Ragged(rows) == \E i, k \in 1..Len(rows) : Len(rows[i]) # Len(rows[k])

\* C14: rows of differing lengths (a shorter first row included) give one line
\* per row in row order, each line holding the cells of its row and no others,
\* within the widths of the columns that row has; no row length fails.
C14_RaggedRows ==
    (TableReturned /\ Ragged(call.rows)) =>
        /\ ~ret.panic
        /\ Len(ret.val) = Len(call.rows)
        /\ \A i \in 1..Len(call.rows) :
              /\ SelectSeq(ret.val[i], NotSpace) = Flatten(call.rows[i])
              /\ Len(ret.val[i]) <= Offset(call.rows, call.spacing, Len(call.rows[i]) + 1)
              /\ \A j \in 1..Len(call.rows[i]) :
                    ColWidth(call.rows, j) > 0 =>
                        Len(ret.val[i]) >= Offset(call.rows, call.spacing, j)
                                           + Len(call.rows[i][j])

C14_Witness ==
    /\ TableReturned
    /\ call.rows = <<<<<<"a">>>>, <<<<"a">>, <<"a", "a">>>>>>
    /\ call.spacing = 1
    /\ ret.val = <<<<"a">>, <<"a", " ", "a", "a">>>>

\* ---------------------------------------------- claims about the detail cap
\* printed is what the cap leaves of the lines orig, each after prefix.
Capped(printed, orig, cap, prefix) ==
    LET total == Len(orig)
    IN  IF cap > 0 /\ total > cap
        THEN /\ Len(printed) = cap
             /\ \A i \in 1..(cap - 1) : printed[i] = prefix \o orig[i]
             /\ \E k \in 1..total :
                   /\ printed[cap] = prefix \o <<"[">> \o Itoa(k) \o <<" ", "m", "o", "r", "e", "]">>
                   /\ k = total - cap + 1
                   /\ (cap - 1) + k = total
        ELSE /\ Len(printed) = total
             /\ \A i \in 1..total : printed[i] = prefix \o orig[i]

\* the formatted lines of the details before the cap
DetailLines ==
    formatTable(IF call.detailWidth > 0
                THEN ElideDetails(call.details, call.detailWidth)
                ELSE call.details, 2, {})

\* C15: with a positive cap and more lines than the cap, cap lines come out:
\* the first cap-1 lines and "[k more]", k = total - cap + 1; with at most cap
\* lines or a negative cap every line comes out unchanged; with cap 0
\* writeReport prints no detail line.
C15_DetailCap ==
    /\ (call.fn = "writeReport" /\ ret.state = "returned") =>
          IF call.maxDetails = 0 THEN ret.val = <<>>
          ELSE Capped(ret.val, DetailLines, call.maxDetails, Indent)
    /\ (call.fn = "formatTableMaxLines" /\ ret.state = "returned"
            /\ ret.val.err.nil /\ call.maxLines # 0) =>
          Capped(ret.val.lines, formatTable(call.rows, 2, {}), call.maxLines, <<>>)

C15_Witness ==
    /\ call.fn = "writeReport"
    /\ ret.state = "returned"
    /\ Len(call.details) = 4
    /\ call.maxDetails = 2
    /\ call.detailWidth = 2
    /\ call.details[1] = <<<<"a", "a", EAcute>>, <<EAcute>>>>
    /\ ret.val = <<Indent \o <<"a", Ellipsis, " ", " ", EAcute>>,
                   Indent \o <<"[", "3", " ", "m", "o", "r", "e", "]">>>>

\* ------------------------------------------------- claims about readReport
CanonicalTitles == <<"Performance", "Accessibility", "Best Practices", "SEO", "PWA">>

\* the raw result holds a category of this title
PresentTitle(t) ==
    \E f \in DOMAIN call.res.Categories : call.res.Categories[f].Title = t

\* C20: the categories of the built report are the canonical sequence
\* Performance, Accessibility, Best Practices, SEO, PWA restricted to the
\* categories the raw result holds; an absent category has no entry.
C20_CategoryOrder ==
    (call.fn = "readReport" /\ ret.state = "returned" /\ ret.val.err = "nil") =>
        /\ ~ret.val.rep.nil
        /\ [k \in 1..Len(ret.val.rep.Categories) |-> ret.val.rep.Categories[k].Title]
              = SelectSeq(CanonicalTitles, PresentTitle)

C20_Witness ==
    /\ call.fn = "readReport"
    /\ ret.state = "returned"
    /\ ret.val.err = "nil"
    /\ DOMAIN call.res.Categories = {"Seo", "Accessibility", "Performance"}
    /\ Len(ret.val.rep.Categories) = 3
    /\ ret.val.rep.Categories[1].Abbrev = "Perf"
    /\ ret.val.rep.Categories[2].Abbrev = "A11Y"
    /\ ret.val.rep.Categories[3].Abbrev = "SEO"
    /\ Len(ret.val.rep.Categories[3].Audits) = 1

ReadReturned == call.fn = "readReport" /\ ret.state = "returned"

\* some present category refers to an audit that the raw audit map lacks
UnresolvedRef ==
    \E f \in DOMAIN call.res.Categories :
        \E k \in 1..Len(call.res.Categories[f].AuditRefs) :
            call.res.Categories[f].AuditRefs[k] \notin DOMAIN call.res.Audits

\* the raw category that a category of the report was built from
RawOf(cat) ==
    CHOOSE f \in DOMAIN call.res.Categories : call.res.Categories[f].Title = cat.Title

\* C21: an audit reference that is not in the raw audit map makes readReport
\* return an error and no report; when every reference resolves, each category
\* of the report has one audit per reference, in reference order.
C21_MissingAuditFailsClosed ==
    ReadReturned =>
        IF UnresolvedRef
        THEN ret.val.err # "nil" /\ ret.val.rep.nil
        ELSE /\ ret.val.err = "nil"
             /\ ~ret.val.rep.nil
             /\ Len(ret.val.rep.Categories) = Cardinality(DOMAIN call.res.Categories)
             /\ \A c \in 1..Len(ret.val.rep.Categories) :
                   LET cat == ret.val.rep.Categories[c]
                       refs == call.res.Categories[RawOf(cat)].AuditRefs
                   IN  /\ Len(cat.Audits) = Len(refs)
                       /\ \A k \in 1..Len(refs) :
                             cat.Audits[k].Title = call.res.Audits[refs[k]].Title

C21_Witness ==
    /\ ReadReturned
    /\ DOMAIN call.res.Categories = {"Performance", "Seo"}
    /\ call.res.Categories["Performance"].AuditRefs = <<"viewport", "fcp">>
    /\ call.res.Categories["Seo"].AuditRefs = <<"viewport", "lcp">>
    /\ ret.val.err = "missing audit"
    /\ ret.val.rep = NilRep

\* --------------------------------------------------- claims about score100
\* C22: a numeric score f in [0,1], given in thousandths, becomes the integer
\* nearest to 100*f, a half going away from zero (0.995 gives 100), which lies
\* in 0..100; a score that is no number becomes -1, unlike a numeric 0.
C22_ScoreNormalization ==
    (call.fn = "score100" /\ ret.state = "returned") =>
        IF call.score.type = "float64"
        THEN /\ ret.val \in 0..100
             /\ 10 * ret.val - call.score.milli \in (0 - 4)..5
        ELSE ret.val = 0 - 1

\* -------------------------------------------------- claims about getDetails
DetailsReturned == call.fn = "getDetails" /\ ret.state = "returned"

EndsWith(str, suffix) ==
    Len(str) >= Len(suffix)
    /\ SubSeq(str, Len(str) - Len(suffix) + 1, Len(str)) = suffix

\* the text of a value by its type, no unit
PlainText(v) ==
    IF v.t = "string" THEN TrimSpace(v.s)
    ELSE IF v.t = "float64" THEN FormatFloat(v.tenths)
    ELSE IF v.t = "map" /\ v.snippet.ok THEN v.snippet.s
    ELSE IF v.t = "map" /\ v.url.ok THEN v.url.s
    ELSE Sprint(v)

\* C23: a payload that parses with h >= 1 headings and n >= 1 items gives n+1
\* rows of h cells: the headings (text, else label), then per item its cells in
\* heading order, empty for a key the item lacks, " ms" or " bytes" appended
\* to the numeric cells of a column that declares that unit and to no other
\* cell; no headings or no items give no rows; an unparsable payload gives one
\* row of one cell, the raw text.
C23_DetailsShape ==
    DetailsReturned =>
        IF call.raw.kind = "text" THEN ret.val = <<<<call.raw.text>>>>
        ELSE IF call.raw.kind = "json"
        THEN LET hs == call.raw.Headings
                 is == call.raw.Items
             IN  IF Len(hs) = 0 \/ Len(is) = 0 THEN ret.val = <<>>
                 ELSE /\ Len(ret.val) = Len(is) + 1
                      /\ \A i \in 1..Len(ret.val) : Len(ret.val[i]) = Len(hs)
                      /\ \A j \in 1..Len(hs) :
                            ret.val[1][j] =
                                TrimSpace(IF hs[j].Text # <<>> THEN hs[j].Text ELSE hs[j].Label)
                      /\ \A i \in 1..Len(is) : \A j \in 1..Len(hs) :
                            LET cell == ret.val[i + 1][j]
                            IN  IF hs[j].Key \notin DOMAIN is[i] THEN cell = <<>>
                                ELSE IF is[i][hs[j].Key].t = "float64"
                                        /\ hs[j].ItemType = "ms"
                                THEN cell = PlainText(is[i][hs[j].Key]) \o <<" ", "m", "s">>
                                ELSE IF is[i][hs[j].Key].t = "float64"
                                        /\ hs[j].ItemType = "bytes"
                                THEN cell = PlainText(is[i][hs[j].Key])
                                            \o <<" ", "b", "y", "t", "e", "s">>
                                ELSE cell = PlainText(is[i][hs[j].Key])
        ELSE TRUE

C23_Witness ==
    /\ DetailsReturned
    /\ call.raw.kind = "json"
    /\ Len(call.raw.Headings) = 2
    /\ Len(call.raw.Items) = 2
    /\ ret.val = <<<<<<"U", "R", "L">>, <<"T", "i", "m", "e">>>>,
                   <<<<"a">>, <<"1", "2", ".", "5", " ", "m", "s">>>>,
                   <<<<"u">>, <<>>>>>>

\* ------------------------------------------- claims about the text output
SummaryReturned == call.fn = "writeSummary" /\ ret.state = "returned"
ReportsReturned == call.fn = "writeReports" /\ ret.state = "returned"

StartsWith(str, prefix) ==
    Len(str) >= Len(prefix) /\ SubSeq(str, 1, Len(prefix)) = prefix

\* the lines of ret.val that are dividers, and the k-th of them
DividerAt == {i \in 1..Len(ret.val) : ret.val[i] = [k \in 1..80 |-> "="]}
KthDivider(k) ==
    CHOOSE i \in DividerAt : Cardinality({m \in DividerAt : m <= i}) = k

\* C24: writeSummary prints the heading and then one line per report, in list
\* order; writeReports prints one section per report, in list order; a report
\* without categories has its line and its section, with no score in them.
C24_OneRowOneSection ==
    /\ SummaryReturned =>
          /\ Len(ret.val.lines) = Len(call.reps) + 1
          /\ StartsWith(ret.val.lines[1], <<"U", "R", "L">>)
          /\ \A r \in 1..Len(call.reps) :
                LET cell == IF call.cfg.fullURLs THEN call.reps[r].URL
                            ELSE urlPath(call.reps[r].URL)
                IN  /\ StartsWith(ret.val.lines[r + 1], cell)
                    /\ (Len(call.reps[r].Categories) = 0 =>
                            SelectSeq(ret.val.lines[r + 1], NotSpace) = cell)
    /\ (ReportsReturned /\ ret.round = 1) =>
          /\ Cardinality(DividerAt) = Len(call.reps)
          /\ \A r \in 1..Len(call.reps) :
                LET d == KthDivider(r)
                    end == IF r = Len(call.reps) THEN Len(ret.val) + 1
                           ELSE KthDivider(r + 1)
                IN  /\ end >= d + 4
                    /\ ret.val[d + 1] = <<>>
                    /\ ret.val[d + 2] = call.reps[r].URL
                    /\ (Len(call.reps[r].Categories) = 0 => end = d + 4)

C24_Witness ==
    /\ ReportsReturned
    /\ ret.round = 1
    /\ Len(call.reps) = 2
    /\ Len(call.reps[1].Categories) = 0
    /\ Len(call.reps[2].Categories) = 3
    /\ call.cfg.audits = "all"
    /\ Len(ret.val) > 8
    /\ ret.val[5] = [k \in 1..80 |-> "="]
    /\ ret.val[7] = <<"h", Colon, Slash, Slash, "a", Slash, "p">>
    /\ ret.val[9] = <<"1", "0", "0", " ", "P", "e", "r", "f">>

\* C25: writing a report changes nothing of it: after writeReports the reports,
\* their categories, audits and detail cells are what they were before, for
\* every detailWidth and maxDetails; writeSummary has no effect on them either.
C25_ReportsImmutable ==
    ReportsReturned => ret.mem = call.reps

\* the category of rep whose abbreviation is the heading cell
ScoreUnder(rep, headingCell) ==
    {rep.Categories[c].Score : c \in {k \in 1..Len(rep.Categories) :
                                        Runes(rep.Categories[k].Abbrev) = headingCell}}

\* C30: in the table of writeSummary the heading is URL and the abbreviations
\* of the first report that has categories, and in every report row the score
\* in column j is the score of the category that heading cell j names.
C30_ScoresUnderHeadings ==
    SummaryReturned =>
        LET rows == ret.val.rows
            first == {r \in 1..Len(call.reps) :
                        /\ Len(call.reps[r].Categories) > 0
                        /\ \A k \in 1..(r - 1) : Len(call.reps[k].Categories) = 0}
        IN  /\ Len(rows) = Len(call.reps) + 1
            /\ rows[1][1] = <<"U", "R", "L">>
            /\ \A r \in first :
                  /\ Len(rows[1]) = Len(call.reps[r].Categories) + 1
                  /\ \A c \in 1..Len(call.reps[r].Categories) :
                        rows[1][c + 1] = Runes(call.reps[r].Categories[c].Abbrev)
            /\ \A r \in 1..Len(call.reps) : \A j \in 2..Len(rows[r + 1]) :
                  /\ j <= Len(rows[1])
                  /\ \E sc \in ScoreUnder(call.reps[r], rows[1][j]) :
                        rows[r + 1][j] = FormatInt(sc)

\* C29: elide is idempotent: for max >= 1 eliding the result of elide again
\* with the same max returns it unchanged, so writing the same reports a
\* second time with the same configuration (their detail cells were elided in
\* place by the first writing) prints what the first writing printed.
C29_ElideIdempotent ==
    /\ (ElideReturned /\ call.max >= 1) =>
          /\ ~ret.panic
          /\ elide(ret.val, call.max) = Returned(ret.val)
    /\ (ReportsReturned /\ ret.round = 2) =>
          /\ ret.val = ret.prev
          /\ ret.mem = writeReports(call.reps, call.cfg).reps

\* the second writing of a report of which the first writing shortened a cell
C29_Witness ==
    /\ ReportsReturned
    /\ ret.round = 2
    /\ call.cfg.detailWidth >= 1
    /\ ret.val = ret.prev
    /\ \E r \in 1..Len(call.reps) : ~call.reps[r].nil /\
         \E c \in 1..Len(call.reps[r].Categories) :
         \E a \in 1..Len(call.reps[r].Categories[c].Audits) :
            LET before == call.reps[r].Categories[c].Audits[a].Details
                after == ret.mem[r].Categories[c].Audits[a].Details
            IN  \E i \in 1..Len(before) : \E j \in 1..Len(before[i]) :
                    /\ after[i][j] # before[i][j]
                    /\ after[i][j] = elide(before[i][j], call.cfg.detailWidth).val

\* ------------------------------------------- claims about the job channels
SeedingOver == pc \in {"loop", "resend", "closed", "done"}
Holding == {w \in Workers : wpc[w] \in {"fetch", "send"}}
HeldByWorker(u) == Cardinality({w \in Holding : wjob[w].url = u})
InDone(u) == IF u \in DOMAIN done THEN 1 ELSE 0
\* the job of the send statement jobs <- job that the coordinator is executing
BeingResent(u) == IF pc = "resend" /\ held.url = u THEN 1 ELSE 0

\* C26: close(jobs) runs only when every input URL has an entry in the done
\* map; at that moment, with pairwise-distinct URLs, the jobs channel and the
\* results channel are empty and no worker holds a job; once the channel is
\* closed nothing is sent on it and no getReport call is started, a worker's
\* only step is to leave its loop, and every worker does leave it.
C26_ShutdownOrdering ==
    /\ [][/\ (~jobsClosed /\ jobsClosed') =>
                /\ \A k \in 1..Len(urls) : urls[k] \in DOMAIN done
                /\ Distinct(urls) =>
                      /\ jobs = <<>>
                      /\ results = <<>>
                      /\ Holding = {}
                      /\ pc # "resend"
          /\ jobsClosed =>
                /\ jobsClosed'
                /\ jobs' = jobs
                /\ pc' \notin {"seed", "resend"}
                /\ fetchCalls' = fetchCalls
                /\ \A w \in Workers :
                      /\ wpc[w] \in {"recv", "exit"}
                      /\ wpc'[w] \in {wpc[w], "exit"}
         ]_vars
    /\ jobsClosed ~> (\A w \in Workers : wpc[w] = "exit")

\* Two URLs and two workers: the channel is closed, the output is assembled
\* and both workers have left their loops.
C26_Witness ==
    /\ jobsClosed
    /\ pc = "done"
    /\ Len(urls) = 2
    /\ Distinct(urls)
    /\ workers = 2
    /\ \A w \in Workers : wpc[w] = "exit"
    /\ \E u \in DOMAIN done : done[u].attempts = 2

\* C27: with pairwise-distinct URLs, once the jobs are seeded every URL is in
\* exactly one place: in the jobs channel (counting the job of the send
\* statement the coordinator is executing), with a worker, in the results
\* channel or in the done map, so the counts add up to len(urls); neither
\* channel holds more than len(urls) jobs, and whenever the coordinator or a
\* worker is at a send statement the channel has room for the job.
C27_JobConservation ==
    Distinct(urls) =>
        /\ SeedingOver =>
              /\ \A k \in 1..Len(urls) :
                    /\ CountIn(jobs, urls[k]) + BeingResent(urls[k])
                         + HeldByWorker(urls[k]) + CountIn(results, urls[k])
                         + InDone(urls[k]) = 1
                    /\ CountIn(jobs, urls[k]) + BeingResent(urls[k]) <= 1
              /\ Len(jobs) + (IF pc = "resend" THEN 1 ELSE 0) + Cardinality(Holding)
                   + Len(results) + LenDone = Len(urls)
        /\ Len(jobs) <= Len(urls)
        /\ Len(results) <= Len(urls)
        /\ Len(jobs) <= ChanCap
        /\ Len(results) <= ChanCap
        /\ pc \in {"seed", "resend"} => Len(jobs) < ChanCap
        /\ \A w \in Workers : wpc[w] = "send" => Len(results) < ChanCap

\* One URL is being re-sent by the coordinator while the other is with a
\* worker; both channels are empty.
C27_Witness ==
    /\ Distinct(urls)
    /\ Len(urls) = 2
    /\ pc = "resend"
    /\ Cardinality(Holding) = 1
    /\ Len(jobs) = 0
    /\ Len(results) = 0

\* the jobs for u, wherever they are
JobsOf(u) ==
    {jobs[k] : k \in {i \in 1..Len(jobs) : jobs[i].url = u}}
    \cup {results[k] : k \in {i \in 1..Len(results) : results[i].url = u}}
    \cup {wjob[w] : w \in {x \in Holding : wjob[x].url = u}}
    \cup (IF pc = "resend" /\ held.url = u THEN {held} ELSE {})
    \cup (IF u \in DOMAIN done THEN {done[u]} ELSE {})

\* a worker's getReport call for u returns in this step
FetchReturns(u) ==
    \E w \in Workers :
        /\ wpc[w] = "fetch"
        /\ wpc'[w] = "send"
        /\ wjob[w].url = u
        /\ wjob'[w].attempts = wjob[w].attempts + 1

\* C28: a job is created with attempts = 0; only the return of a worker's
\* getReport call changes the field, by +1; for a URL given once the field
\* equals the number of getReport calls that have returned for the URL; it
\* never exceeds max(retries, 0) + 1, a negative -retries value gives exactly
\* one call per finished URL, and the calls of a run number at most
\* len(urls) * (max(retries, 0) + 1).
C28_AttemptsBound ==
    /\ [](/\ \A u \in URLS : \A job \in JobsOf(u) :
                /\ job.attempts \in 0..(Budget + 1)
                /\ Occurrences(u) = 1 => job.attempts = fetchCalls[u]
          /\ \A u \in DOMAIN done :
                /\ done[u].attempts >= 1
                /\ retries < 0 => done[u].attempts = 1
                /\ (retries < 0 /\ Occurrences(u) = 1) => fetchCalls[u] = 1
          /\ \A u \in URLS : fetchCalls[u] <= Occurrences(u) * (Budget + 1)
          /\ SumCalls(URLS) <= Len(urls) * (Budget + 1))
    /\ [][/\ Len(jobs') > Len(jobs) =>
                /\ pc \in {"seed", "resend"}
                /\ pc = "seed" =>
                      jobs'[Len(jobs')] = [url |-> urls[seedIdx], rep |-> NilRep,
                                           err |-> "nil", attempts |-> 0]
                /\ pc = "resend" => jobs'[Len(jobs')] = held
          /\ \A u \in URLS : Occurrences(u) = 1 =>
                \A old \in JobsOf(u) : \A new \in JobsOf(u)' :
                    IF FetchReturns(u)
                    THEN /\ new.attempts = old.attempts + 1
                         /\ fetchCalls'[u] = fetchCalls[u] + 1
                    ELSE /\ new.attempts = old.attempts
                         /\ fetchCalls'[u] = fetchCalls[u]
         ]_vars

\* -retries -1: a URL whose call failed was not retried.
C28_Witness ==
    /\ retries < 0
    /\ pc = "done"
    /\ Len(urls) = 2
    /\ Distinct(urls)
    /\ \E u \in DOMAIN done :
          /\ failK[u] >= 1
          /\ done[u].err # "nil"
          /\ done[u].attempts = 1
          /\ fetchCalls[u] = 1

====
